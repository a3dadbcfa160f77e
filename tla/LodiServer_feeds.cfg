CONSTANTS
  u1 = u1
  u2 = u2
  h1 = h1
  h2 = h2
  c1 = c1
  c2 = c2
  c3 = c3
  c4 = c4
  c5 = c5
  c6 = c6
  NoUser = NoUser
  Users = {u1, u2}
  Hosts = {h1, h2}
  Conns = {c1, c2, c3, c4, c5, c6}
  Socks = {5, 6, 7, 8, 9, 10}
  Workload <- IdolAndFan
  MayClose = {c4, c5}
  Verdicts = {TRUE}
  Allocs = {"stored"}
  MaxBacklog = 2
SPECIFICATION Spec
CONSTRAINT BacklogBound
CHECK_DEADLOCK FALSE
INVARIANTS FeedGapFree NoDoubleDelivery OnlyClosedFeedsKill
PROPERTIES OnlyFollowersReceive PostsReachFollowersUndisturbed
