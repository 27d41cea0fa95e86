SPECIFICATION FairSpec
CONSTANTS
  Unlimited = 1000
  w1 = w1
  w2 = w2
  NoWatcher = NoWatcher
  Watchers = {w1, w2}
  Policy <- MCMixed
  Pipes = 1
  WatchSignals <- MCSignals
  MaxWatches = 2
  MaxWrites = 1
  MaxTasks = 1
  MaxNesting = 2
INVARIANTS WatchersExact NoLostWakeup
PROPERTIES CancelledStaysSilent ReadyIsNotified
CHECK_DEADLOCK FALSE
