------------------------------ MODULE Login_proofs ------------------------------
(***************************************************************************)
(* Proofs about Login, for any users, calls, codes, sessions and keys.     *)
(***************************************************************************)
EXTENDS Login, FiniteSetTheorems, TLAPS

--------------------------------------------------------------------------------
\* The inductive invariant

\* Calls that have used a token of u and are about to open its registration.
Pending(u) == {c \in Calls : user[c] = u /\ pc[c] = "registration"}

\* A token is fresh, on its way to a registration, was used, or expired.
TokensInv ==
  \A u \in Users : opened[u] + Cardinality(Pending(u)) + Cardinality(fresh[u]) <= issued[u]

\* What a registration that deleted the passkeys finds there was stored since.
RivalsInv == \A c \in Calls : pc[c] = "store" => keys[user[c]] \subseteq rivals[c]

\* The steps of LoginComplete.
Completing == {"delete", "user", "reread", "replace", "store", "jwt"}

\* A call knows each passkey its user has had since it read its session.
ValidInv ==
  \A c \in Calls :
    /\ pc[c] \in Completing => keys[user[c]] \subseteq valid[c]
    /\ pc[c] = "replace" => seen[c] \subseteq valid[c]
    /\ pc[c] = "jwt" => key[c] \in valid[c]

\* It knows whether its user has been active since.
AwakeInv ==
  \A c \in Calls :
    /\ pc[c] \in Completing /\ active[user[c]] => awake[c]
    /\ pc[c] \in {"reread", "replace", "store", "jwt"} => awake[c]

IInv ==
  TypeOK /\ TokensInv /\ RivalsInv /\ PasskeysNeedRace /\ KeyLossNeedsCutOff /\ ValidInv
    /\ AwakeInv

--------------------------------------------------------------------------------
\* Type correctness

\* No step takes a variable out of its type.
LEMMA TypeStep == TypeOK /\ [Next]_vars => TypeOK'
<1> SUFFICES ASSUME TypeOK, [Next]_vars
             PROVE  TypeOK'
  OBVIOUS
<1>1. ASSUME NEW c \in Calls, NEW u \in Users, NEW step \in {"keys", "token", "verify"},
             FindByEmail(c, u, step)
      PROVE  TypeOK'
  BY <1>1 DEF TypeOK, GoOn, Return, At, Steps, tables, locals, counts, spans, FindByEmail
<1>2. ASSUME NEW c \in Calls, LookForKeys(c)
      PROVE  TypeOK'
  BY <1>2 DEF TypeOK, GoOn, Return, At, Steps, tables, locals, counts, spans, LookForKeys
<1>3. ASSUME NEW c \in Calls, NEW code \in Codes, IssueToken(c, code)
      PROVE  TypeOK'
  <2>1. issued[user[c]] + 1 \in 0..MaxTokens
    BY <1>3, MaxTokensAssumption DEF TypeOK, IssueToken, At
  <2>2. QED
    BY <1>3, <2>1 DEF TypeOK, GoOn, Return, At, Steps, tables, locals, counts, spans, IssueToken
<1>4. ASSUME NEW c \in Calls, NEW code \in Codes, ConsumeToken(c, code)
      PROVE  TypeOK'
  BY <1>4 DEF TypeOK, GoOn, Return, At, Steps, tables, locals, counts, spans, ConsumeToken
<1>5. ASSUME NEW c \in Calls, NEW s \in Sessions, OpenAssertion(c, s)
      PROVE  TypeOK'
  BY <1>5 DEF TypeOK, GoOn, Return, At, Steps, tables, locals, counts, spans, OpenAssertion,
        OpenSession
<1>6. ASSUME NEW c \in Calls, NEW s \in Sessions, OpenRegistration(c, s)
      PROVE  TypeOK'
  BY <1>6 DEF TypeOK, GoOn, Return, At, Steps, tables, locals, counts, spans, OpenRegistration,
        OpenSession
<1>7. ASSUME NEW c \in Calls, NEW s \in Sessions, ReadSession(c, s)
      PROVE  TypeOK'
  BY <1>7 DEF TypeOK, GoOn, Return, At, Steps, tables, locals, counts, spans, ReadSession
<1>8. ASSUME NEW c \in Calls, DeleteSession(c)
      PROVE  TypeOK'
  BY <1>8 DEF TypeOK, GoOn, Return, At, Steps, tables, locals, counts, spans, DeleteSession
<1>9. ASSUME NEW c \in Calls, FindByRef(c)
      PROVE  TypeOK'
  BY <1>9 DEF TypeOK, GoOn, Return, At, Steps, tables, locals, counts, spans, FindByRef
<1>10. ASSUME NEW c \in Calls, RereadKeys(c)
      PROVE  TypeOK'
  BY <1>10 DEF TypeOK, GoOn, Return, At, Steps, tables, locals, counts, spans, RereadKeys
<1>11. ASSUME NEW c \in Calls, ReplaceKeys(c)
      PROVE  TypeOK'
  BY <1>11 DEF TypeOK, GoOn, Return, At, Steps, tables, locals, counts, spans, ReplaceKeys
<1>12. ASSUME NEW c \in Calls, Answer(c)
      PROVE  TypeOK'
  BY <1>12 DEF TypeOK, GoOn, Return, At, Steps, tables, locals, counts, spans, Answer
<1>13. ASSUME NEW c \in Calls, NEW k \in Keys, ValidateLogin(c, k)
      PROVE  TypeOK'
  BY <1>13 DEF TypeOK, GoOn, Return, At, Steps, tables, locals, counts, spans, ValidateLogin
<1>14. ASSUME NEW c \in Calls, NEW k \in Keys, StoreKey(c, k)
      PROVE  TypeOK'
  BY <1>14 DEF TypeOK, GoOn, Return, At, Steps, tables, locals, counts, spans, StoreKey
<1>15. ASSUME NEW c \in Calls, GiveUp(c)
      PROVE  TypeOK'
  BY <1>15 DEF TypeOK, GoOn, Return, At, Steps, tables, locals, counts, spans, GiveUp
<1>16. ASSUME NEW u \in Users, DeleteUser(u)
      PROVE  TypeOK'
  BY <1>16 DEF TypeOK, GoOn, Return, At, Steps, tables, locals, counts, spans, DeleteUser
<1>17. ASSUME NEW u \in Users, RestoreUser(u)
      PROVE  TypeOK'
  BY <1>17 DEF TypeOK, GoOn, Return, At, Steps, tables, locals, counts, spans, RestoreUser
<1>18. ASSUME NEW u \in Users, NEW code \in Codes, ExpireToken(u, code)
      PROVE  TypeOK'
  BY <1>18 DEF TypeOK, GoOn, Return, At, Steps, tables, locals, counts, spans, ExpireToken
<1>19. ASSUME NEW s \in Sessions, ExpireSession(s)
      PROVE  TypeOK'
  BY <1>19 DEF TypeOK, GoOn, Return, At, Steps, tables, locals, counts, spans, ExpireSession
<1>20. CASE UNCHANGED vars
  BY <1>20 DEF TypeOK, GoOn, Return, At, Steps, tables, locals, counts, spans, vars
<1>21. QED
  BY <1>1, <1>2, <1>3, <1>4, <1>5, <1>6, <1>7, <1>8, <1>9, <1>10, <1>11, <1>12, <1>13, <1>14,
        <1>15, <1>16, <1>17, <1>18, <1>19, <1>20 DEF Next, Begin, Complete, Beside,
        LoginBegin, ResetLogin, VerifyToken

--------------------------------------------------------------------------------
\* Passkeys

\* Two passkeys of a user raced.
LEMMA RaceStep ==
  TypeOK /\ RivalsInv /\ PasskeysNeedRace /\ [Next]_vars => (RivalsInv /\ PasskeysNeedRace)'
<1> SUFFICES ASSUME TypeOK, RivalsInv, PasskeysNeedRace, [Next]_vars
             PROVE  (RivalsInv /\ PasskeysNeedRace)'
  OBVIOUS
<1>1. ASSUME NEW c \in Calls, NEW u \in Users, NEW step \in {"keys", "token", "verify"},
             FindByEmail(c, u, step)
      PROVE  (RivalsInv /\ PasskeysNeedRace)'
  BY <1>1 DEF TypeOK, GoOn, Return, At, Steps, tables, locals, counts, spans,
        RivalsInv, PasskeysNeedRace, FindByEmail
<1>2. ASSUME NEW c \in Calls, LookForKeys(c)
      PROVE  (RivalsInv /\ PasskeysNeedRace)'
  BY <1>2 DEF TypeOK, GoOn, Return, At, Steps, tables, locals, counts, spans,
        RivalsInv, PasskeysNeedRace, LookForKeys
<1>3. ASSUME NEW c \in Calls, NEW code \in Codes, IssueToken(c, code)
      PROVE  (RivalsInv /\ PasskeysNeedRace)'
  BY <1>3 DEF TypeOK, GoOn, Return, At, Steps, tables, locals, counts, spans,
        RivalsInv, PasskeysNeedRace, IssueToken
<1>4. ASSUME NEW c \in Calls, NEW code \in Codes, ConsumeToken(c, code)
      PROVE  (RivalsInv /\ PasskeysNeedRace)'
  BY <1>4 DEF TypeOK, GoOn, Return, At, Steps, tables, locals, counts, spans,
        RivalsInv, PasskeysNeedRace, ConsumeToken
<1>5. ASSUME NEW c \in Calls, NEW s \in Sessions, OpenAssertion(c, s)
      PROVE  (RivalsInv /\ PasskeysNeedRace)'
  BY <1>5 DEF TypeOK, GoOn, Return, At, Steps, tables, locals, counts, spans,
        RivalsInv, PasskeysNeedRace, OpenAssertion, OpenSession
<1>6. ASSUME NEW c \in Calls, NEW s \in Sessions, OpenRegistration(c, s)
      PROVE  (RivalsInv /\ PasskeysNeedRace)'
  BY <1>6 DEF TypeOK, GoOn, Return, At, Steps, tables, locals, counts, spans,
        RivalsInv, PasskeysNeedRace, OpenRegistration, OpenSession
<1>7. ASSUME NEW c \in Calls, NEW s \in Sessions, ReadSession(c, s)
      PROVE  (RivalsInv /\ PasskeysNeedRace)'
  BY <1>7 DEF TypeOK, GoOn, Return, At, Steps, tables, locals, counts, spans,
        RivalsInv, PasskeysNeedRace, ReadSession
<1>8. ASSUME NEW c \in Calls, DeleteSession(c)
      PROVE  (RivalsInv /\ PasskeysNeedRace)'
  BY <1>8 DEF TypeOK, GoOn, Return, At, Steps, tables, locals, counts, spans,
        RivalsInv, PasskeysNeedRace, DeleteSession
<1>9. ASSUME NEW c \in Calls, FindByRef(c)
      PROVE  (RivalsInv /\ PasskeysNeedRace)'
  BY <1>9 DEF TypeOK, GoOn, Return, At, Steps, tables, locals, counts, spans,
        RivalsInv, PasskeysNeedRace, FindByRef
<1>10. ASSUME NEW c \in Calls, RereadKeys(c)
      PROVE  (RivalsInv /\ PasskeysNeedRace)'
  BY <1>10 DEF TypeOK, GoOn, Return, At, Steps, tables, locals, counts, spans,
        RivalsInv, PasskeysNeedRace, RereadKeys
<1>11. ASSUME NEW c \in Calls, ReplaceKeys(c)
      PROVE  (RivalsInv /\ PasskeysNeedRace)'
  BY <1>11 DEF TypeOK, GoOn, Return, At, Steps, tables, locals, counts, spans,
        RivalsInv, PasskeysNeedRace, ReplaceKeys
<1>12. ASSUME NEW c \in Calls, Answer(c)
      PROVE  (RivalsInv /\ PasskeysNeedRace)'
  BY <1>12 DEF TypeOK, GoOn, Return, At, Steps, tables, locals, counts, spans,
        RivalsInv, PasskeysNeedRace, Answer
<1>13. ASSUME NEW c \in Calls, NEW k \in Keys, ValidateLogin(c, k)
      PROVE  (RivalsInv /\ PasskeysNeedRace)'
  BY <1>13 DEF TypeOK, GoOn, Return, At, Steps, tables, locals, counts, spans,
        RivalsInv, PasskeysNeedRace, ValidateLogin
<1>14. ASSUME NEW c \in Calls, NEW k \in Keys, StoreKey(c, k)
      PROVE  (RivalsInv /\ PasskeysNeedRace)'
  BY <1>14 DEF TypeOK, GoOn, Return, At, Steps, tables, locals, counts, spans,
        RivalsInv, PasskeysNeedRace, StoreKey
<1>15. ASSUME NEW c \in Calls, GiveUp(c)
      PROVE  (RivalsInv /\ PasskeysNeedRace)'
  BY <1>15 DEF TypeOK, GoOn, Return, At, Steps, tables, locals, counts, spans,
        RivalsInv, PasskeysNeedRace, GiveUp
<1>16. ASSUME NEW u \in Users, DeleteUser(u)
      PROVE  (RivalsInv /\ PasskeysNeedRace)'
  BY <1>16 DEF TypeOK, GoOn, Return, At, Steps, tables, locals, counts, spans,
        RivalsInv, PasskeysNeedRace, DeleteUser
<1>17. ASSUME NEW u \in Users, RestoreUser(u)
      PROVE  (RivalsInv /\ PasskeysNeedRace)'
  BY <1>17 DEF TypeOK, GoOn, Return, At, Steps, tables, locals, counts, spans,
        RivalsInv, PasskeysNeedRace, RestoreUser
<1>18. ASSUME NEW u \in Users, NEW code \in Codes, ExpireToken(u, code)
      PROVE  (RivalsInv /\ PasskeysNeedRace)'
  BY <1>18 DEF TypeOK, GoOn, Return, At, Steps, tables, locals, counts, spans,
        RivalsInv, PasskeysNeedRace, ExpireToken
<1>19. ASSUME NEW s \in Sessions, ExpireSession(s)
      PROVE  (RivalsInv /\ PasskeysNeedRace)'
  BY <1>19 DEF TypeOK, GoOn, Return, At, Steps, tables, locals, counts, spans,
        RivalsInv, PasskeysNeedRace, ExpireSession
<1>20. CASE UNCHANGED vars
  BY <1>20 DEF TypeOK, GoOn, Return, At, Steps, tables, locals, counts, spans,
        RivalsInv, PasskeysNeedRace, vars
<1>21. QED
  BY <1>1, <1>2, <1>3, <1>4, <1>5, <1>6, <1>7, <1>8, <1>9, <1>10, <1>11, <1>12, <1>13, <1>14,
        <1>15, <1>16, <1>17, <1>18, <1>19, <1>20 DEF Next, Begin, Complete, Beside,
        LoginBegin, ResetLogin, VerifyToken

\* Where a user's only passkey went.
LEMMA LossStep == TypeOK /\ KeyLossNeedsCutOff /\ [Next]_vars => KeyLossNeedsCutOff'
<1> SUFFICES ASSUME TypeOK, KeyLossNeedsCutOff, [Next]_vars
             PROVE  KeyLossNeedsCutOff'
  OBVIOUS
<1>1. ASSUME NEW c \in Calls, NEW u \in Users, NEW step \in {"keys", "token", "verify"},
             FindByEmail(c, u, step)
      PROVE  KeyLossNeedsCutOff'
  BY <1>1 DEF TypeOK, GoOn, Return, At, Steps, tables, locals, counts, spans,
        KeyLossNeedsCutOff, FindByEmail
<1>2. ASSUME NEW c \in Calls, LookForKeys(c)
      PROVE  KeyLossNeedsCutOff'
  BY <1>2 DEF TypeOK, GoOn, Return, At, Steps, tables, locals, counts, spans,
        KeyLossNeedsCutOff, LookForKeys
<1>3. ASSUME NEW c \in Calls, NEW code \in Codes, IssueToken(c, code)
      PROVE  KeyLossNeedsCutOff'
  BY <1>3 DEF TypeOK, GoOn, Return, At, Steps, tables, locals, counts, spans,
        KeyLossNeedsCutOff, IssueToken
<1>4. ASSUME NEW c \in Calls, NEW code \in Codes, ConsumeToken(c, code)
      PROVE  KeyLossNeedsCutOff'
  BY <1>4 DEF TypeOK, GoOn, Return, At, Steps, tables, locals, counts, spans,
        KeyLossNeedsCutOff, ConsumeToken
<1>5. ASSUME NEW c \in Calls, NEW s \in Sessions, OpenAssertion(c, s)
      PROVE  KeyLossNeedsCutOff'
  BY <1>5 DEF TypeOK, GoOn, Return, At, Steps, tables, locals, counts, spans,
        KeyLossNeedsCutOff, OpenAssertion, OpenSession
<1>6. ASSUME NEW c \in Calls, NEW s \in Sessions, OpenRegistration(c, s)
      PROVE  KeyLossNeedsCutOff'
  BY <1>6 DEF TypeOK, GoOn, Return, At, Steps, tables, locals, counts, spans,
        KeyLossNeedsCutOff, OpenRegistration, OpenSession
<1>7. ASSUME NEW c \in Calls, NEW s \in Sessions, ReadSession(c, s)
      PROVE  KeyLossNeedsCutOff'
  BY <1>7 DEF TypeOK, GoOn, Return, At, Steps, tables, locals, counts, spans,
        KeyLossNeedsCutOff, ReadSession
<1>8. ASSUME NEW c \in Calls, DeleteSession(c)
      PROVE  KeyLossNeedsCutOff'
  BY <1>8 DEF TypeOK, GoOn, Return, At, Steps, tables, locals, counts, spans,
        KeyLossNeedsCutOff, DeleteSession
<1>9. ASSUME NEW c \in Calls, FindByRef(c)
      PROVE  KeyLossNeedsCutOff'
  BY <1>9 DEF TypeOK, GoOn, Return, At, Steps, tables, locals, counts, spans,
        KeyLossNeedsCutOff, FindByRef
<1>10. ASSUME NEW c \in Calls, RereadKeys(c)
      PROVE  KeyLossNeedsCutOff'
  BY <1>10 DEF TypeOK, GoOn, Return, At, Steps, tables, locals, counts, spans,
        KeyLossNeedsCutOff, RereadKeys
<1>11. ASSUME NEW c \in Calls, ReplaceKeys(c)
      PROVE  KeyLossNeedsCutOff'
  BY <1>11 DEF TypeOK, GoOn, Return, At, Steps, tables, locals, counts, spans,
        KeyLossNeedsCutOff, ReplaceKeys
<1>12. ASSUME NEW c \in Calls, Answer(c)
      PROVE  KeyLossNeedsCutOff'
  BY <1>12 DEF TypeOK, GoOn, Return, At, Steps, tables, locals, counts, spans,
        KeyLossNeedsCutOff, Answer
<1>13. ASSUME NEW c \in Calls, NEW k \in Keys, ValidateLogin(c, k)
      PROVE  KeyLossNeedsCutOff'
  BY <1>13 DEF TypeOK, GoOn, Return, At, Steps, tables, locals, counts, spans,
        KeyLossNeedsCutOff, ValidateLogin
<1>14. ASSUME NEW c \in Calls, NEW k \in Keys, StoreKey(c, k)
      PROVE  KeyLossNeedsCutOff'
  <2> SUFFICES ASSUME NEW u \in had'
               PROVE  (\/ keys[u] # {}
                       \/ u \in cut
                       \/ \E d \in Calls : user[d] = u /\ At(d, "store"))'
    BY DEF KeyLossNeedsCutOff
  <2>1. CASE u = user[c]
    BY <1>14, <2>1 DEF StoreKey, TypeOK, At
  <2>2. CASE u # user[c]
    <3>1. u \in had /\ keys'[u] = keys[u] /\ cut' = cut /\ user' = user
      BY <1>14, <2>2 DEF StoreKey, TypeOK
    <3>2. \A d \in Calls : user[d] = u => pc'[d] = pc[d]
      BY <1>14, <2>2 DEF StoreKey, GoOn, TypeOK
    <3>3. QED
      BY <3>1, <3>2 DEF KeyLossNeedsCutOff, At
  <2>3. QED
    BY <2>1, <2>2
<1>15. ASSUME NEW c \in Calls, GiveUp(c)
      PROVE  KeyLossNeedsCutOff'
  BY <1>15 DEF TypeOK, GoOn, Return, At, Steps, tables, locals, counts, spans,
        KeyLossNeedsCutOff, GiveUp
<1>16. ASSUME NEW u \in Users, DeleteUser(u)
      PROVE  KeyLossNeedsCutOff'
  BY <1>16 DEF TypeOK, GoOn, Return, At, Steps, tables, locals, counts, spans,
        KeyLossNeedsCutOff, DeleteUser
<1>17. ASSUME NEW u \in Users, RestoreUser(u)
      PROVE  KeyLossNeedsCutOff'
  BY <1>17 DEF TypeOK, GoOn, Return, At, Steps, tables, locals, counts, spans,
        KeyLossNeedsCutOff, RestoreUser
<1>18. ASSUME NEW u \in Users, NEW code \in Codes, ExpireToken(u, code)
      PROVE  KeyLossNeedsCutOff'
  BY <1>18 DEF TypeOK, GoOn, Return, At, Steps, tables, locals, counts, spans,
        KeyLossNeedsCutOff, ExpireToken
<1>19. ASSUME NEW s \in Sessions, ExpireSession(s)
      PROVE  KeyLossNeedsCutOff'
  BY <1>19 DEF TypeOK, GoOn, Return, At, Steps, tables, locals, counts, spans,
        KeyLossNeedsCutOff, ExpireSession
<1>20. CASE UNCHANGED vars
  BY <1>20 DEF TypeOK, GoOn, Return, At, Steps, tables, locals, counts, spans,
        KeyLossNeedsCutOff, vars
<1>21. QED
  BY <1>1, <1>2, <1>3, <1>4, <1>5, <1>6, <1>7, <1>8, <1>9, <1>10, <1>11, <1>12, <1>13, <1>14,
        <1>15, <1>16, <1>17, <1>18, <1>19, <1>20 DEF Next, Begin, Complete, Beside,
        LoginBegin, ResetLogin, VerifyToken

\* What a LoginComplete knows about its user.
LEMMA EarnedStep == TypeOK /\ ValidInv /\ AwakeInv /\ [Next]_vars => (ValidInv /\ AwakeInv)'
<1> SUFFICES ASSUME TypeOK, ValidInv, AwakeInv, [Next]_vars
             PROVE  (ValidInv /\ AwakeInv)'
  OBVIOUS
<1>1. ASSUME NEW c \in Calls, NEW u \in Users, NEW step \in {"keys", "token", "verify"},
             FindByEmail(c, u, step)
      PROVE  (ValidInv /\ AwakeInv)'
  BY <1>1 DEF TypeOK, GoOn, Return, At, Steps, tables, locals, counts, spans,
        ValidInv, AwakeInv, Completing, FindByEmail
<1>2. ASSUME NEW c \in Calls, LookForKeys(c)
      PROVE  (ValidInv /\ AwakeInv)'
  BY <1>2 DEF TypeOK, GoOn, Return, At, Steps, tables, locals, counts, spans,
        ValidInv, AwakeInv, Completing, LookForKeys
<1>3. ASSUME NEW c \in Calls, NEW code \in Codes, IssueToken(c, code)
      PROVE  (ValidInv /\ AwakeInv)'
  BY <1>3 DEF TypeOK, GoOn, Return, At, Steps, tables, locals, counts, spans,
        ValidInv, AwakeInv, Completing, IssueToken
<1>4. ASSUME NEW c \in Calls, NEW code \in Codes, ConsumeToken(c, code)
      PROVE  (ValidInv /\ AwakeInv)'
  BY <1>4 DEF TypeOK, GoOn, Return, At, Steps, tables, locals, counts, spans,
        ValidInv, AwakeInv, Completing, ConsumeToken
<1>5. ASSUME NEW c \in Calls, NEW s \in Sessions, OpenAssertion(c, s)
      PROVE  (ValidInv /\ AwakeInv)'
  BY <1>5 DEF TypeOK, GoOn, Return, At, Steps, tables, locals, counts, spans,
        ValidInv, AwakeInv, Completing, OpenAssertion, OpenSession
<1>6. ASSUME NEW c \in Calls, NEW s \in Sessions, OpenRegistration(c, s)
      PROVE  (ValidInv /\ AwakeInv)'
  BY <1>6 DEF TypeOK, GoOn, Return, At, Steps, tables, locals, counts, spans,
        ValidInv, AwakeInv, Completing, OpenRegistration, OpenSession
<1>7. ASSUME NEW c \in Calls, NEW s \in Sessions, ReadSession(c, s)
      PROVE  (ValidInv /\ AwakeInv)'
  BY <1>7 DEF TypeOK, GoOn, Return, At, Steps, tables, locals, counts, spans,
        ValidInv, AwakeInv, Completing, ReadSession
<1>8. ASSUME NEW c \in Calls, DeleteSession(c)
      PROVE  (ValidInv /\ AwakeInv)'
  BY <1>8 DEF TypeOK, GoOn, Return, At, Steps, tables, locals, counts, spans,
        ValidInv, AwakeInv, Completing, DeleteSession
<1>9. ASSUME NEW c \in Calls, FindByRef(c)
      PROVE  (ValidInv /\ AwakeInv)'
  BY <1>9 DEF TypeOK, GoOn, Return, At, Steps, tables, locals, counts, spans,
        ValidInv, AwakeInv, Completing, FindByRef
<1>10. ASSUME NEW c \in Calls, RereadKeys(c)
      PROVE  (ValidInv /\ AwakeInv)'
  BY <1>10 DEF TypeOK, GoOn, Return, At, Steps, tables, locals, counts, spans,
        ValidInv, AwakeInv, Completing, RereadKeys
<1>11. ASSUME NEW c \in Calls, ReplaceKeys(c)
      PROVE  (ValidInv /\ AwakeInv)'
  BY <1>11 DEF TypeOK, GoOn, Return, At, Steps, tables, locals, counts, spans,
        ValidInv, AwakeInv, Completing, ReplaceKeys
<1>12. ASSUME NEW c \in Calls, Answer(c)
      PROVE  (ValidInv /\ AwakeInv)'
  BY <1>12 DEF TypeOK, GoOn, Return, At, Steps, tables, locals, counts, spans,
        ValidInv, AwakeInv, Completing, Answer
<1>13. ASSUME NEW c \in Calls, NEW k \in Keys, ValidateLogin(c, k)
      PROVE  (ValidInv /\ AwakeInv)'
  BY <1>13 DEF TypeOK, GoOn, Return, At, Steps, tables, locals, counts, spans,
        ValidInv, AwakeInv, Completing, ValidateLogin
<1>14. ASSUME NEW c \in Calls, NEW k \in Keys, StoreKey(c, k)
      PROVE  (ValidInv /\ AwakeInv)'
  BY <1>14 DEF TypeOK, GoOn, Return, At, Steps, tables, locals, counts, spans,
        ValidInv, AwakeInv, Completing, StoreKey
<1>15. ASSUME NEW c \in Calls, GiveUp(c)
      PROVE  (ValidInv /\ AwakeInv)'
  BY <1>15 DEF TypeOK, GoOn, Return, At, Steps, tables, locals, counts, spans,
        ValidInv, AwakeInv, Completing, GiveUp
<1>16. ASSUME NEW u \in Users, DeleteUser(u)
      PROVE  (ValidInv /\ AwakeInv)'
  BY <1>16 DEF TypeOK, GoOn, Return, At, Steps, tables, locals, counts, spans,
        ValidInv, AwakeInv, Completing, DeleteUser
<1>17. ASSUME NEW u \in Users, RestoreUser(u)
      PROVE  (ValidInv /\ AwakeInv)'
  BY <1>17 DEF TypeOK, GoOn, Return, At, Steps, tables, locals, counts, spans,
        ValidInv, AwakeInv, Completing, RestoreUser
<1>18. ASSUME NEW u \in Users, NEW code \in Codes, ExpireToken(u, code)
      PROVE  (ValidInv /\ AwakeInv)'
  BY <1>18 DEF TypeOK, GoOn, Return, At, Steps, tables, locals, counts, spans,
        ValidInv, AwakeInv, Completing, ExpireToken
<1>19. ASSUME NEW s \in Sessions, ExpireSession(s)
      PROVE  (ValidInv /\ AwakeInv)'
  BY <1>19 DEF TypeOK, GoOn, Return, At, Steps, tables, locals, counts, spans,
        ValidInv, AwakeInv, Completing, ExpireSession
<1>20. CASE UNCHANGED vars
  BY <1>20 DEF TypeOK, GoOn, Return, At, Steps, tables, locals, counts, spans,
        ValidInv, AwakeInv, Completing, vars
<1>21. QED
  BY <1>1, <1>2, <1>3, <1>4, <1>5, <1>6, <1>7, <1>8, <1>9, <1>10, <1>11, <1>12, <1>13, <1>14,
        <1>15, <1>16, <1>17, <1>18, <1>19, <1>20 DEF Next, Begin, Complete, Beside,
        LoginBegin, ResetLogin, VerifyToken

--------------------------------------------------------------------------------
\* Tokens

\* The sets the counts are about are finite.
LEMMA Finite ==
  ASSUME TypeOK, NEW u \in Users
  PROVE  /\ IsFiniteSet(Pending(u)) /\ IsFiniteSet(fresh[u])
         /\ Cardinality(Pending(u)) \in Nat /\ Cardinality(fresh[u]) \in Nat
         /\ opened[u] \in Nat /\ issued[u] \in Nat
<1>1. Pending(u) \subseteq Calls /\ fresh[u] \subseteq Codes
  BY DEF Pending, TypeOK
<1>2. IsFiniteSet(Pending(u)) /\ IsFiniteSet(fresh[u])
  BY <1>1, CallsAssumption, CodesAssumption, FS_Subset
<1>3. Cardinality(Pending(u)) \in Nat /\ Cardinality(fresh[u]) \in Nat
  BY <1>2, FS_CardinalityType
<1>4. opened[u] \in Nat /\ issued[u] \in Nat
  BY MaxTokensAssumption DEF TypeOK
<1>5. QED
  BY <1>2, <1>3, <1>4

\* A step that adds no registration and no token, no pending call and no fresh
\* code keeps the sum.
LEMMA TokensKept ==
  ASSUME TypeOK, TypeOK', TokensInv, opened' = opened, issued' = issued,
         \A v \in Users : Pending(v)' \subseteq Pending(v),
         \A u \in Users : fresh'[u] \subseteq fresh[u]
  PROVE  TokensInv'
<1> SUFFICES ASSUME NEW u \in Users
             PROVE  (opened[u] + Cardinality(Pending(u)) + Cardinality(fresh[u]) <= issued[u])'
  BY DEF TokensInv
<1>1. Cardinality(Pending(u)') <= Cardinality(Pending(u)) /\ Cardinality(Pending(u)') \in Nat
  BY Finite, FS_Subset, FS_CardinalityType
<1>2. Cardinality(fresh'[u]) <= Cardinality(fresh[u]) /\ Cardinality(fresh'[u]) \in Nat
  BY Finite, FS_Subset, FS_CardinalityType
<1>3. QED
  BY <1>1, <1>2, Finite DEF TokensInv

\* A new token adds at most one fresh code.
LEMMA TokensIssued ==
  ASSUME TypeOK, TypeOK', TokensInv, NEW c \in Calls, NEW code \in Codes, IssueToken(c, code)
  PROVE  TokensInv'
<1> SUFFICES ASSUME NEW u \in Users
             PROVE  (opened[u] + Cardinality(Pending(u)) + Cardinality(fresh[u]) <= issued[u])'
  BY DEF TokensInv
<1>1. opened' = opened /\ Pending(u)' = Pending(u)
  BY DEF IssueToken, Return, At, Pending, TypeOK
<1>2. CASE u = user[c]
  <2>1. issued'[u] = issued[u] + 1 /\ fresh'[u] = fresh[u] \cup {code}
    BY <1>2 DEF IssueToken, TypeOK
  <2>2. Cardinality(fresh[u] \cup {code}) <= Cardinality(fresh[u]) + 1
        /\ Cardinality(fresh[u] \cup {code}) \in Nat
    <3>1. IsFiniteSet(fresh[u]) /\ Cardinality(fresh[u]) \in Nat
      BY Finite
    <3>2. Cardinality(fresh[u] \cup {code}) =
            IF code \in fresh[u] THEN Cardinality(fresh[u]) ELSE Cardinality(fresh[u]) + 1
      BY <3>1, FS_AddElement, Zenon
    <3>3. QED
      BY <3>1, <3>2
  <2>3. QED
    BY <1>1, <2>1, <2>2, Finite DEF TokensInv
<1>3. CASE u # user[c]
  BY <1>1, <1>3 DEF IssueToken, TypeOK, TokensInv
<1>4. QED
  BY <1>2, <1>3

\* A code that is consumed leaves for a pending call.
LEMMA TokensConsumed ==
  ASSUME TypeOK, TypeOK', TokensInv, NEW c \in Calls, NEW code \in Codes, ConsumeToken(c, code)
  PROVE  TokensInv'
<1> SUFFICES ASSUME NEW u \in Users
             PROVE  (opened[u] + Cardinality(Pending(u)) + Cardinality(fresh[u]) <= issued[u])'
  BY DEF TokensInv
<1>1. opened' = opened /\ issued' = issued
  BY DEF ConsumeToken, counts
<1>2. CASE u = user[c]
  <2>1. Pending(u)' = Pending(u) \cup {c} /\ c \notin Pending(u)
    BY <1>2 DEF ConsumeToken, GoOn, At, Pending, TypeOK
  <2>2. fresh'[u] = fresh[u] \ {code} /\ code \in fresh[u]
    BY <1>2 DEF ConsumeToken, TypeOK
  <2>3. Cardinality(Pending(u)') = Cardinality(Pending(u)) + 1
    BY <2>1, Finite, FS_AddElement
  <2>4. Cardinality(fresh'[u]) = Cardinality(fresh[u]) - 1
    <3>1. IsFiniteSet(fresh[u])
      BY Finite
    <3>2. Cardinality(fresh[u] \ {code}) = Cardinality(fresh[u]) - 1
      BY ONLY <2>2, <3>1, FS_RemoveElement
    <3>3. QED
      BY ONLY <2>2, <3>2
  <2>5. QED
    BY <1>1, <2>3, <2>4, Finite DEF TokensInv
<1>3. CASE u # user[c]
  <2>1. Pending(u)' = Pending(u) /\ fresh'[u] = fresh[u]
    BY <1>3 DEF ConsumeToken, GoOn, At, Pending, TypeOK
  <2>2. QED
    BY <1>1, <2>1 DEF TokensInv
<1>4. QED
  BY <1>2, <1>3

\* A registration that is opened was pending.
LEMMA TokensOpened ==
  ASSUME TypeOK, TypeOK', TokensInv, NEW c \in Calls, NEW s \in Sessions, OpenRegistration(c, s)
  PROVE  TokensInv'
<1> SUFFICES ASSUME NEW u \in Users
             PROVE  (opened[u] + Cardinality(Pending(u)) + Cardinality(fresh[u]) <= issued[u])'
  BY DEF TokensInv
<1>1. fresh' = fresh /\ issued' = issued
  BY DEF OpenRegistration
<1>2. CASE u = user[c]
  <2>1. Pending(u)' = Pending(u) \ {c} /\ c \in Pending(u)
    BY <1>2, NobodyAssumption DEF OpenRegistration, Return, At, Pending, TypeOK
  <2>2. Cardinality(Pending(u)') = Cardinality(Pending(u)) - 1
    BY <2>1, Finite, FS_RemoveElement
  <2>3. opened'[u] = opened[u] + 1
    BY <1>2 DEF OpenRegistration, TypeOK
  <2>4. QED
    BY <1>1, <2>2, <2>3, Finite DEF TokensInv
<1>3. CASE u # user[c]
  <2>1. Pending(u)' = Pending(u) /\ opened'[u] = opened[u]
    BY <1>3, NobodyAssumption DEF OpenRegistration, Return, At, Pending, TypeOK
  <2>2. QED
    BY <1>1, <2>1 DEF TokensInv
<1>4. QED
  BY <1>2, <1>3

\* A step of a call that neither opens a registration nor uses a token.
LEMMA PendingKept ==
  ASSUME TypeOK, NEW c \in Calls, NEW step, GoOn(c, step), step # "registration",
         UNCHANGED user \/ pc[c] = "idle",
         \A d \in Calls \ {c} : user'[d] = user[d]
  PROVE  \A v \in Users : Pending(v)' \subseteq Pending(v)
BY DEF GoOn, Pending, TypeOK

\* So does one that is answered.
LEMMA PendingLeft ==
  ASSUME TypeOK, NEW c \in Calls, Return(c)
  PROVE  \A v \in Users : Pending(v)' \subseteq Pending(v)
BY DEF Return, Pending, TypeOK

\* No step makes more registrations of the tokens there are.
LEMMA TokensStep == TypeOK /\ TypeOK' /\ TokensInv /\ [Next]_vars => TokensInv'
<1> SUFFICES ASSUME TypeOK, TypeOK', TokensInv, [Next]_vars
             PROVE  TokensInv'
  OBVIOUS
<1>1. ASSUME NEW c \in Calls, NEW u \in Users, NEW step \in {"keys", "token", "verify"},
             FindByEmail(c, u, step)
      PROVE  TokensInv'
  <2>1. \A v \in Users : Pending(v)' \subseteq Pending(v)
    BY <1>1, NobodyAssumption DEF FindByEmail, GoOn, At, Pending, TypeOK
  <2>2. QED
    BY <1>1, <2>1, TokensKept DEF FindByEmail, counts, tables, locals
<1>2. ASSUME NEW c \in Calls, LookForKeys(c)
      PROVE  TokensInv'
  <2>1. \A v \in Users : Pending(v)' \subseteq Pending(v)
    BY <1>2, PendingKept DEF LookForKeys, GoOn, At, tables, locals, counts, spans, TypeOK
  <2>2. QED
    BY <1>2, <2>1, TokensKept DEF LookForKeys, counts, tables, locals
<1>3. ASSUME NEW c \in Calls, NEW code \in Codes, IssueToken(c, code)
      PROVE  TokensInv'
  BY <1>3, TokensIssued
<1>4. ASSUME NEW c \in Calls, NEW code \in Codes, ConsumeToken(c, code)
      PROVE  TokensInv'
  BY <1>4, TokensConsumed
<1>5. ASSUME NEW c \in Calls, NEW s \in Sessions, OpenAssertion(c, s)
      PROVE  TokensInv'
  <2>1. \A v \in Users : Pending(v)' \subseteq Pending(v)
    BY <1>5, PendingLeft DEF OpenAssertion, OpenSession, GoOn, At, tables, locals, counts, spans,
        TypeOK
  <2>2. QED
    BY <1>5, <2>1, TokensKept DEF OpenAssertion, OpenSession, counts, tables, locals
<1>6. ASSUME NEW c \in Calls, NEW s \in Sessions, OpenRegistration(c, s)
      PROVE  TokensInv'
  BY <1>6, TokensOpened
<1>7. ASSUME NEW c \in Calls, NEW s \in Sessions, ReadSession(c, s)
      PROVE  TokensInv'
  <2>1. \A v \in Users : Pending(v)' \subseteq Pending(v)
    BY <1>7, PendingKept DEF ReadSession, GoOn, At, tables, locals, counts, spans, TypeOK
  <2>2. QED
    BY <1>7, <2>1, TokensKept DEF ReadSession, counts, tables, locals
<1>8. ASSUME NEW c \in Calls, DeleteSession(c)
      PROVE  TokensInv'
  <2>1. \A v \in Users : Pending(v)' \subseteq Pending(v)
    BY <1>8, PendingKept DEF DeleteSession, GoOn, At, tables, locals, counts, spans, TypeOK
  <2>2. QED
    BY <1>8, <2>1, TokensKept DEF DeleteSession, counts, tables, locals
<1>9. ASSUME NEW c \in Calls, FindByRef(c)
      PROVE  TokensInv'
  <2>1. \A v \in Users : Pending(v)' \subseteq Pending(v)
    BY <1>9, PendingKept DEF FindByRef, GoOn, At, tables, locals, counts, spans, TypeOK
  <2>2. QED
    BY <1>9, <2>1, TokensKept DEF FindByRef, counts, tables, locals
<1>10. ASSUME NEW c \in Calls, RereadKeys(c)
      PROVE  TokensInv'
  <2>1. \A v \in Users : Pending(v)' \subseteq Pending(v)
    BY <1>10, PendingKept DEF RereadKeys, GoOn, At, tables, locals, counts, spans, TypeOK
  <2>2. QED
    BY <1>10, <2>1, TokensKept DEF RereadKeys, counts, tables, locals
<1>11. ASSUME NEW c \in Calls, ReplaceKeys(c)
      PROVE  TokensInv'
  <2>1. \A v \in Users : Pending(v)' \subseteq Pending(v)
    BY <1>11, PendingKept DEF ReplaceKeys, GoOn, At, tables, locals, counts, spans, TypeOK
  <2>2. QED
    BY <1>11, <2>1, TokensKept DEF ReplaceKeys, counts, tables, locals
<1>12. ASSUME NEW c \in Calls, Answer(c)
      PROVE  TokensInv'
  <2>1. \A v \in Users : Pending(v)' \subseteq Pending(v)
    BY <1>12, PendingLeft DEF Answer, GoOn, At, tables, locals, counts, spans, TypeOK
  <2>2. QED
    BY <1>12, <2>1, TokensKept DEF Answer, counts, tables, locals
<1>13. ASSUME NEW c \in Calls, NEW k \in Keys, ValidateLogin(c, k)
      PROVE  TokensInv'
  <2>1. \A v \in Users : Pending(v)' \subseteq Pending(v)
    BY <1>13, PendingKept DEF ValidateLogin, GoOn, At, tables, locals, counts, spans, TypeOK
  <2>2. QED
    BY <1>13, <2>1, TokensKept DEF ValidateLogin, counts, tables, locals
<1>14. ASSUME NEW c \in Calls, NEW k \in Keys, StoreKey(c, k)
      PROVE  TokensInv'
  <2>1. \A v \in Users : Pending(v)' \subseteq Pending(v)
    BY <1>14, PendingKept DEF StoreKey, GoOn, At, tables, locals, counts, spans, TypeOK
  <2>2. QED
    BY <1>14, <2>1, TokensKept DEF StoreKey, counts, tables, locals
<1>15. ASSUME NEW c \in Calls, GiveUp(c)
      PROVE  TokensInv'
  <2>1. \A v \in Users : Pending(v)' \subseteq Pending(v)
    BY <1>15, PendingLeft DEF GiveUp, GoOn, At, tables, locals, counts, spans, TypeOK
  <2>2. QED
    BY <1>15, <2>1, TokensKept DEF GiveUp, counts, tables, locals
<1>16. ASSUME NEW u \in Users, DeleteUser(u)
      PROVE  TokensInv'
  <2>1. \A v \in Users : Pending(v)' = Pending(v) /\ fresh'[v] \subseteq fresh[v]
    BY <1>16 DEF DeleteUser, Pending, locals, TypeOK
  <2>2. QED
    BY <1>16, <2>1, TokensKept DEF DeleteUser, counts
<1>17. ASSUME NEW u \in Users, RestoreUser(u)
      PROVE  TokensInv'
  <2>1. \A v \in Users : Pending(v)' = Pending(v) /\ fresh'[v] \subseteq fresh[v]
    BY <1>17 DEF RestoreUser, Pending, locals, TypeOK
  <2>2. QED
    BY <1>17, <2>1, TokensKept DEF RestoreUser, counts
<1>18. ASSUME NEW u \in Users, NEW code \in Codes, ExpireToken(u, code)
      PROVE  TokensInv'
  <2>1. \A v \in Users : Pending(v)' = Pending(v) /\ fresh'[v] \subseteq fresh[v]
    BY <1>18 DEF ExpireToken, Pending, locals, TypeOK
  <2>2. QED
    BY <1>18, <2>1, TokensKept DEF ExpireToken, counts
<1>19. ASSUME NEW s \in Sessions, ExpireSession(s)
      PROVE  TokensInv'
  <2>1. \A v \in Users : Pending(v)' = Pending(v) /\ fresh'[v] \subseteq fresh[v]
    BY <1>19 DEF ExpireSession, Pending, locals, TypeOK
  <2>2. QED
    BY <1>19, <2>1, TokensKept DEF ExpireSession, counts
<1>20. CASE UNCHANGED vars
  BY <1>20 DEF TokensInv, Pending, TypeOK, tables, locals, counts, vars
<1>21. QED
  BY <1>1, <1>2, <1>3, <1>4, <1>5, <1>6, <1>7, <1>8, <1>9, <1>10, <1>11, <1>12, <1>13, <1>14,
        <1>15, <1>16, <1>17, <1>18, <1>19, <1>20 DEF Next, Begin, Complete, Beside,
        LoginBegin, ResetLogin, VerifyToken

--------------------------------------------------------------------------------
\* Theorems

\* A user who never had a token has no registration.
LEMMA InitInv == Init => IInv
<1> SUFFICES ASSUME Init
             PROVE  IInv
  OBVIOUS
<1>1. TypeOK
  BY MaxTokensAssumption DEF Init, TypeOK, Steps
<1>2. TokensInv
  <2> SUFFICES ASSUME NEW u \in Users
               PROVE  opened[u] + Cardinality(Pending(u)) + Cardinality(fresh[u]) <= issued[u]
    BY DEF TokensInv
  <2>1. Pending(u) = {} /\ fresh[u] = {} /\ opened[u] = 0 /\ issued[u] = 0
    BY DEF Init, Pending
  <2>2. QED
    BY <2>1, FS_EmptySet
<1>3. RivalsInv /\ PasskeysNeedRace /\ KeyLossNeedsCutOff
  BY DEF Init, RivalsInv, PasskeysNeedRace, KeyLossNeedsCutOff
<1>4. ValidInv /\ AwakeInv
  BY DEF Init, ValidInv, AwakeInv, Completing
<1>5. QED
  BY <1>1, <1>2, <1>3, <1>4 DEF IInv

\* Every step keeps the invariant.
LEMMA NextInv == IInv /\ [Next]_vars => IInv'
<1>1. IInv /\ [Next]_vars => TypeOK'
  BY TypeStep DEF IInv
<1>2. QED
  BY <1>1, TokensStep, RaceStep, LossStep, EarnedStep DEF IInv

\* It holds in every state of the service.
THEOREM Invariance == Spec => []IInv
<1>1. QED
  BY InitInv, NextInv, PTL DEF Spec

\* Every variable of the login keeps its type.
THEOREM TypeCorrect == Spec => []TypeOK
<1>1. IInv => TypeOK
  BY DEF IInv
<1>2. QED
  BY Invariance, <1>1, PTL

\* No user has more registrations than tokens, whatever calls hold one code.
THEOREM TokensOpenOnce == Spec => []RegistrationNeedsToken
<1>1. IInv => RegistrationNeedsToken
  <2> SUFFICES ASSUME IInv, NEW u \in Users
               PROVE  opened[u] <= issued[u]
    BY DEF RegistrationNeedsToken
  <2>1. opened[u] + Cardinality(Pending(u)) + Cardinality(fresh[u]) <= issued[u]
    BY DEF IInv, TokensInv
  <2>2. QED
    BY <2>1, Finite DEF IInv
<1>2. QED
  BY Invariance, <1>1, PTL

\* Two passkeys of a user need two registrations that raced.
THEOREM OneKeyPerUser == Spec => []PasskeysNeedRace
<1>1. IInv => PasskeysNeedRace
  BY DEF IInv
<1>2. QED
  BY Invariance, <1>1, PTL

\* A user only loses a passkey to a registration, under way or cut off.
THEOREM KeysStay == Spec => []KeyLossNeedsCutOff
<1>1. IInv => KeyLossNeedsCutOff
  BY DEF IInv
<1>2. QED
  BY Invariance, <1>1, PTL

\* A JWT is made for a user who was active, with a passkey that was registered,
\* since its LoginComplete began.
THEOREM LoginEarned == Spec => []LoginIsEarned
<1>1. IInv => LoginIsEarned
  BY DEF IInv, LoginIsEarned, ValidInv, AwakeInv, At
<1>2. QED
  BY Invariance, <1>1, PTL

--------------------------------------------------------------------------------
\* One call at a time

\* A registration that nobody else's statements come between has no rivals.
AloneInv ==
  /\ \A c \in Calls : rivals[c] = {}
  /\ \A k \in Keys : met[k] = {}

\* A step of the service while it serves one call at a time.
LEMMA AloneStep ==
  ASSUME \A c, d \in Calls : c = d
  PROVE  TypeOK /\ AloneInv /\ [Next]_vars => AloneInv'
<1> SUFFICES ASSUME TypeOK, AloneInv, [Next]_vars
             PROVE  AloneInv'
  OBVIOUS
<1>1. ASSUME UNCHANGED <<rivals, met>>
      PROVE  AloneInv'
  BY <1>1 DEF AloneInv
<1>2. ASSUME NEW c \in Calls, Return(c)
      PROVE  AloneInv'
  BY <1>2 DEF Return, AloneInv, TypeOK
<1>3. ASSUME NEW c \in Calls, NEW k \in Keys, StoreKey(c, k)
      PROVE  AloneInv'
  <2>1. rivals' = [d \in Calls |->
                     rivals[d] \cup (IF d \in {x \in Calls : user[x] = user[c]} \ {c}
                                     THEN {k} ELSE {})]
    BY <1>3 DEF StoreKey
  <2>2. \A d \in Calls : d \notin {x \in Calls : user[x] = user[c]} \ {c}
    OBVIOUS
  <2>3. \A d \in Calls : rivals'[d] = {}
    BY <2>1, <2>2 DEF AloneInv
  <2>4. met' = [met EXCEPT ![k] = {}]
    BY <1>3 DEF StoreKey, AloneInv
  <2>5. QED
    BY <2>3, <2>4 DEF AloneInv, TypeOK
<1>4. ASSUME NEW c \in Calls, ReplaceKeys(c)
      PROVE  AloneInv'
  BY <1>4 DEF ReplaceKeys, AloneInv, TypeOK
<1>5. ASSUME NEW c \in Calls, Begin(c)
      PROVE  AloneInv'
  BY <1>1, <1>2, <1>5
  DEF Begin, LoginBegin, ResetLogin, VerifyToken, FindByEmail, LookForKeys, IssueToken,
      ConsumeToken, OpenAssertion, OpenRegistration, spans
<1>6. ASSUME NEW c \in Calls, Complete(c)
      PROVE  AloneInv'
  BY <1>1, <1>2, <1>3, <1>4, <1>6
  DEF Complete, ReadSession, DeleteSession, FindByRef, RereadKeys, Answer, ValidateLogin, spans
<1>7. ASSUME NEW c \in Calls, GiveUp(c)
      PROVE  AloneInv'
  BY <1>2, <1>7 DEF GiveUp
<1>8. CASE Beside \/ UNCHANGED vars
  BY <1>1, <1>8 DEF Beside, DeleteUser, RestoreUser, ExpireToken, ExpireSession, spans, vars
<1>9. QED
  BY <1>5, <1>6, <1>7, <1>8 DEF Next

\* A service that serves one call at a time has at most one passkey for a user,
\* although it begins a registration with a DELETE of its own and calls end
\* between the DELETE and the INSERT (login.go:213-221).
THEOREM OneByOneOneKey ==
  ASSUME \A c, d \in Calls : c = d
  PROVE  Spec => [](\A u \in Users : \A k, l \in keys[u] : k = l)
<1>1. Init => AloneInv
  BY DEF Init, AloneInv
<1>2. TypeOK /\ PasskeysNeedRace /\ AloneInv => \A u \in Users : \A k, l \in keys[u] : k = l
  BY DEF TypeOK, PasskeysNeedRace, AloneInv
<1>3. QED
  BY <1>1, <1>2, AloneStep, TypeCorrect, OneKeyPerUser, PTL DEF Spec

================================================================================
