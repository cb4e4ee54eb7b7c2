SPECIFICATION FairSpec
CONSTANTS
  Jobs = {j1, j2}
  Configs = {a}
  MaxEntries = 2
  MaxTickets = 2
  Faults = {"write", "sync", "store", "admission"}
  Crashes = {"kill"}
INVARIANTS WithdrawnNeverRuns StatesAreTrue ServedInOrder
PROPERTIES PoisonFreezes PendingIsServed ShutdownDrains
CHECK_DEADLOCK FALSE
