SPECIFICATION FairSpec
CONSTANTS
  MaxRequest = 3
  MaxOp = 1
  MaxFuture = 0
  FiberBudget = 1
  QueueDepth = 1
  Exempt = {1}
  Streaming = FALSE
INVARIANTS BudgetHeld QueueServed NoOvertaking
PROPERTIES RequestsEnd StopEnds
CHECK_DEADLOCK FALSE
