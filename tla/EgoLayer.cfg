SPECIFICATION FairSpec
CONSTANTS
  Turn = {t1, t2, t3}
  Judgement = {"redirect"}
  MaxFailures = 3
  Threshold = 2
  MaxSwitches = 1
  MaxCostUsdPerDay = 1
  FallbackOnError = TRUE
  AuditMayFail = TRUE
  HasSessions = TRUE
  CooldownCoversBudget = TRUE
INVARIANTS TypeOK ClosedIffBelowThreshold ProbeOwned OneProbe
PROPERTIES ChargedOnce HalfOpenResolves
CHECK_DEADLOCK FALSE
