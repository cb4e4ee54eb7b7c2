SPECIFICATION Spec
CONSTANTS
  Jobs = {j1}
  Configs = {a}
  MaxEntries = 1
  MaxTickets = 2
  Faults = {"sync"}
  Crashes = {"power"}
INVARIANTS AcknowledgedIntentSurvives
CHECK_DEADLOCK FALSE
