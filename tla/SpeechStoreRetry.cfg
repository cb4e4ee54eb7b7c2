SPECIFICATION Spec
CONSTANTS
  Jobs = {j1}
  Configs = {a}
  Titles = {t}
  Outputs = {x}
  Plan <- MCPlan
  MaxAttempts = 1
  Faults = {"io"}
  Crashes = {"power"}
INVARIANTS ReleaseLeavesRedundant
CHECK_DEADLOCK FALSE
