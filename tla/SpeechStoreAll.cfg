SPECIFICATION FairSpec
CONSTANTS
  Jobs = {j1}
  Configs = {a, b}
  Titles = {t}
  Outputs = {x}
  Plan <- MCPlan
  MaxAttempts = 2
  Faults = {"io"}
  Crashes = {"kill", "power"}
INVARIANTS CreatedSurvives ProgressIsCommitted ManifestsSound StageIsClaimed
PROPERTIES SlotComesBack
CHECK_DEADLOCK FALSE
