SPECIFICATION Spec
CONSTANTS
  Unlimited = 1000
  w1 = w1
  w2 = w2
  NoWatcher = NoWatcher
  Watchers = {w1, w2}
  Policy <- MCMixed
  Pipes = 1
  WatchSignals <- MCReadable
  MaxWatches = 2
  MaxWrites = 1
  MaxTasks = 1
  MaxNesting = 2
PROPERTY NoStaleCallback
CHECK_DEADLOCK FALSE
