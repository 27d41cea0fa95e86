SPECIFICATION FairSpec
CONSTANTS
  Unlimited = 1000
  NoWatcher = 0
  Policy <- MCPolicy
  NestedWaits = FALSE
  MaxStarts = 2
  MaxWrites = 3
  MaxSends = 1
  MaxWaits = 1
  MaxDepth = 3
INVARIANT WatchesExactly
PROPERTIES NoDeliveryAfterStop MessagesAreRead PeerCloseIsNoticed
CHECK_DEADLOCK FALSE
