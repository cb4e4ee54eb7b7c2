SPECIFICATION OwnerSpec
CONSTANTS
  Callers = {t1, t2, t3, t4, raw}
  Runners = {t1, t2}
  Closers = {t3, t4}
  Raw = raw
  Kernels = {"enc", "kernel"}
  Plans = {"plan", "view"}
  Stages <- PlanStages
  Bindings <- PlanBindings
  Buffers = {"arena", "buf"}
  Built = {"arena", "enc", "plan", "kernel"}
  Budgets = {1, 2}
  Owned <- OwnedSeq
  DriverFaults = {"record", "submit", "wait"}
INVARIANTS NoUseAfterFree OwnerSound
PROPERTIES QuarantineIsFinal ImplementsLease
CHECK_DEADLOCK FALSE
SYMMETRY ThreadSymmetry
