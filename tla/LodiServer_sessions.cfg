CONSTANTS
  u1 = u1
  u2 = u2
  h1 = h1
  h2 = h2
  c1 = c1
  c2 = c2
  c3 = c3
  c4 = c4
  c5 = c5
  c6 = c6
  NoUser = NoUser
  Users = {u1}
  Hosts = {h1, h2}
  Conns = {c1, c2, c3, c4}
  Socks = {5, 6, 7}
  Workload <- Sessions
  MayClose = {c1, c3, c4}
  Verdicts = {TRUE, FALSE}
  Allocs = {"stored", "refused"}
  MaxBacklog = 4
SPECIFICATION FairSpec
CONSTRAINT BacklogBound
CHECK_DEADLOCK FALSE
INVARIANTS TypeOK FdTableSound AuthorisedOnly PostsStoredOnce SingleSession
PROPERTIES LogoutEndsSession OnlyInSession EveryRequestAnswered DescriptorsReleased
