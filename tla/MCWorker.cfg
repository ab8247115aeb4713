SPECIFICATION WorkerSpec
CONSTANTS
  e1 = e1
  e2 = e2
  e3 = e3
  e4 = e4
  Events = {e1, e2, e3, e4}
  Unstorable = {e4}
  MaxBatch = 2
  FailClosed = TRUE
  c1 = c1
  c2 = c2
  Calls = {c1, c2}
  Harvester = Harvester
  Finalizer = Finalizer
  NoThread = NoThread
  MaxSandboxes = 2
INVARIANTS
  WorkerTypeOK
  NoSilentLoss
  CompletionIsDurable
  SandboxAccounted
PROPERTIES
  EventuallySettled
  ImplementsLog
  InterruptedReleased
CHECK_DEADLOCK FALSE
