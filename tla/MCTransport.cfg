SPECIFICATION MCSpec
CONSTANTS
  Capacity = 6
  ElementSize = 2
  Word = 16
  MaxSent = 14
  MixPhases = FALSE
  Watches <- MCSignals
  Attempts = 2
  Quiet = 3
  Slices = 4
  ResendEvery = 3
  MaxWrites = 2
  MaxReads = 2
  Quota = 2
INVARIANTS RingConsistent SignalsTruthful NoMissedSignal ConversationIsSound
PROPERTIES ReadRegionStable ImplementsByteStream ReliableConnects
CHECK_DEADLOCK FALSE
