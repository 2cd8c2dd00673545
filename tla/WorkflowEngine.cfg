SPECIFICATION FairSpec
CONSTANTS
  none = none
  None <- none
  Workflow <- MCWorkflow
  MaxCallDepth = 3
  AbortOnToolError = TRUE
  MaxStrands = 4
INVARIANTS TypeOK FramesBalanced FailureAccounted
PROPERTIES FinallyRuns Terminates
CHECK_DEADLOCK FALSE
