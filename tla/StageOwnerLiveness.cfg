SPECIFICATION FairSpec
CONSTANTS
  Callers = {t1, t2, raw}
  Runners = {t1}
  Closers = {t2}
  Raw = raw
  Kernels = {"enc", "kernel"}
  Plans = {"plan"}
  Stages <- PlanStages
  Bindings <- PlanBindings
  Buffers = {"arena", "buf"}
  Built = {"arena", "enc", "plan", "kernel", "buf"}
  Budgets = {2}
  Owned <- OwnedSeq
  DriverFaults = {"record", "submit", "wait"}
PROPERTIES CallsReturn Settles
CHECK_DEADLOCK FALSE
