\* One user, two calls at a time, three sessions, two passkeys, and three tokens
\* of two codes, so that a code repeats.
SPECIFICATION Spec
CONSTANTS
  Users = {u1}
  Calls = {c1, c2}
  Codes = {t1, t2}
  Sessions = {s1, s2, s3}
  Keys = {k1, k2}
  MaxTokens = 3
SYMMETRY Symmetry
INVARIANTS
  TypeOK
  RegistrationNeedsToken
  PasskeysNeedRace
  KeyLossNeedsCutOff
  LoginIsEarned
CHECK_DEADLOCK FALSE
