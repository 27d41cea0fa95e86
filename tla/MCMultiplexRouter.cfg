\* One associated interface from each side, every client operation.
CONSTANTS
  MaxMint = 1
  MaxCalls = 2
  CarelessCalls = 1
  MaxRequests = 1
  MaxFlushes = 1
SPECIFICATION FairSpec
INVARIANTS EndpointsExact DispatchIsFaithful PeerClosedTruthful
PROPERTIES FlushesReturn
CHECK_DEADLOCK FALSE
