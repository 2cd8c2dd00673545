SPECIFICATION FairSpec
CONSTANTS
  Turn = {t1, t2}
  Judgement = {"redirect"}
  MaxFailures = 3
  Threshold = 1
  MaxSwitches = 1
  MaxCostUsdPerDay = 1
  FallbackOnError = TRUE
  AuditMayFail = TRUE
  HasSessions = TRUE
  CooldownCoversBudget = TRUE

PROPERTIES OpenOnlyToHalfOpen
CHECK_DEADLOCK FALSE
