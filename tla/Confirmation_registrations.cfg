CONSTANTS
  u1 = u1
  u2 = u2
  d1 = d1
  d2 = d2
  d3 = d3
  Lodi = Lodi
  NoUser = NoUser
  Users = {u1, u2}
  Devices = {d1, d2}
  Owner <- Owners
  Verdicts = {TRUE, FALSE}
  Mortal = {d1}
  MaxLogins = 2
  MaxLost = 1
SPECIFICATION Spec
CHECK_DEADLOCK FALSE
INVARIANTS HandlesOwned ServingIsStored
