CONSTANTS
  u1 = u1
  u2 = u2
  d1 = d1
  d2 = d2
  d3 = d3
  Lodi = Lodi
  NoUser = NoUser
  Users = {u1, u2}
  Devices = {d1, d3}
  Owner <- Owners
  Verdicts = {TRUE}
  Mortal = {d1}
  MaxLogins = 2
  MaxLost = 1
SPECIFICATION FairSpec
CHECK_DEADLOCK FALSE
PROPERTIES ConfirmedByDevice RegisteredAreConfirmed PushReturns
