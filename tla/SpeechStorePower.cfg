SPECIFICATION Spec
CONSTANTS
  Jobs = {j1}
  Configs = {a, b}
  Titles = {t, u}
  Outputs = {x, y}
  Plan <- MCPlan
  MaxAttempts = 2
  Faults = {}
  Crashes = {"power"}
INVARIANTS EndingsSurvive MediaBacked CopyIsCurrent
CHECK_DEADLOCK FALSE
