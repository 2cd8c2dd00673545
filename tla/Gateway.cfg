SPECIFICATION FairSpec
CONSTANTS
  MaxSockets = 2
  MaxCalls = 2
  None = None
  MaxAttempts = 1
  MaxReports = 1
  Conn = {c1, c2, c3}
  g1 = g1
  g2 = g2
  Gateway = {g1, g2}
  Command = {m1}
  MaxRuns = 2
  Box = {b1, b2}
  Exec = {x1, x2}
  s1 = s1
  p1 = p1
  p2 = p2
  t1 = t1
  t2 = t2
  Skill = {s1}
  Source = {p1, p2}
  Tool = {t1, t2}
  CoreTool = {t1}
  Job = {j1, j2}
  Core = Core
  MaxRestarts = 1
  method <- MCMethod
  portOf <- MCPortOf
  tasks <- MCTasks
  kindOf <- MCKindOf
  toolOf <- MCToolOf
  version <- MCVersion
  bundled <- MCBundled
INVARIANTS TypeOK TurnToldInOrder AbortedWhenGone NothingOrphaned
PROPERTIES KeptForTurns EverythingEnds
CHECK_DEADLOCK FALSE
