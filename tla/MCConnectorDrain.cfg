SPECIFICATION Spec
CONSTANTS
  Unlimited = 1000
  NoWatcher = 0
  Policy <- MCPolicy
  NestedWaits = FALSE
  MaxStarts = 2
  MaxWrites = 3
  MaxSends = 0
  MaxWaits = 1
  MaxDepth = 3
PROPERTY DrainedBeforeError
CHECK_DEADLOCK FALSE
