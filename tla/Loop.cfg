SPECIFICATION Spec
CONSTANTS
  MaxRequest = 2
  MaxOp = 2
  MaxFuture = 1
  FiberBudget = 0
  QueueDepth = 0
  Exempt = {}
  Streaming = TRUE
INVARIANTS OneWakeSource StopLosesNothing
PROPERTY CancelStaysInRequest
CHECK_DEADLOCK FALSE
