SPECIFICATION Spec
CONSTANTS
  Callers = {c1, c2, c3}
  Demands <- MCDemands
  CPUSlots = 2
  MemoryBytes = 3
  MaxActive = 2
  MaxWaitings = {1, 2}
INVARIANTS Accounting NoWaiterLost HeadDoesNotFit DrainedExactlyOnce
PROPERTIES NoBypass EveryWaiterReturns ShutdownCompletes
CHECK_DEADLOCK FALSE
