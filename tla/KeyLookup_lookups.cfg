CONSTANTS
  u1 = u1
  u2 = u2
  k1 = k1
  k2 = k2
  a1 = a1
  a2 = a2
  NoUser = NoUser
  NoKey = NoKey
  Keys = {k1, k2}
  Owner <- Owners
  KeyOf <- KeysOfAttempts
  Users = {u1, u2}
  Attempts = {a1, a2}
  Requesters = {"lodi", "tfa"}
  MaxLookups = 3
  MaxLost = 1
SPECIFICATION Spec
CHECK_DEADLOCK FALSE
INVARIANTS RightKey
PROPERTIES RegisteredKeyFound
