CONSTANTS
  MaxLate = 2
  MaxCrashes = 2
  Verdicts = {TRUE, FALSE}
SPECIFICATION FairSpec
CHECK_DEADLOCK FALSE
INVARIANTS ViewRight FeedWithinSession
PROPERTIES FeedSettles
