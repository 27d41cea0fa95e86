SPECIFICATION Spec
CONSTANTS
  Unlimited = 9
  MaxHandles = 5
  MaxPipes = 2
  MaxPipeStates = 3
  MaxMessages = 2
  MaxWrites = 2
  MaxTraps = 1
  MaxTriggers = 2
  MaxEvents = 1
  MaxBytes = 1
  TriggerSignals <- MCReadableOrClosed
  Conditions = {"SATISFIED", "UNSATISFIABLE"}
  Contexts = {1}
  WatchedKinds = {"MessagePipe"}
  Quotas = {1}
CONSTRAINT MCScenarios
INVARIANTS FreeListExact PeerClosedTruthful QueuesAreExact NoMissedSignal NoEventOutlivesTrap
PROPERTIES QuotaHonoured
CHECK_DEADLOCK FALSE
