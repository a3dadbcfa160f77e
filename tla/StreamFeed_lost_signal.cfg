CONSTANTS
  MaxSocks = 2
  MaxCrashes = 1
  MaxInbox = 1
  SignalAt <- InLoop
SPECIFICATION FairSpec
CHECK_DEADLOCK FALSE
PROPERTIES StopReturns
