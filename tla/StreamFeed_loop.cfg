CONSTANTS
  MaxSocks = 3
  MaxCrashes = 3
  MaxInbox = 2
  SignalAt <- Anywhere
SPECIFICATION FairSpec
CHECK_DEADLOCK FALSE
INVARIANTS OneConnection SocketAtHand
PROPERTIES LifeSpec Reconnects RefusalEnds StopReturnsUnlessSilent OrphanEndsUnlessSilent
