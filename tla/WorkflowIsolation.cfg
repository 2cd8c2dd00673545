SPECIFICATION Spec
CONSTANTS
  none = none
  None <- none
  Workflow <- MCWorkflow
  MaxCallDepth = 3
  AbortOnToolError = TRUE
  MaxStrands = 4
INVARIANTS WriteIsolated
CHECK_DEADLOCK FALSE
