SPECIFICATION Spec
CONSTANTS
  Turn = {t1, t2, t3}
  Limit = 3
  ScanLimit = 4
  Keep = {0, 2}
  MaxEvents = 5
  MaxClock = 2
PROPERTIES HistoryIsRecent
CHECK_DEADLOCK FALSE
