SPECIFICATION FairSpec
CONSTANTS
  t1 = t1
  t2 = t2
  f1 = f1
  Tests = {t1, t2}
  Files = {f1}
  FileOf <- OneFile
  todo <- TwoTests
  Versions = {1}
  Compiled = FALSE
  Filter = FALSE
  FreshOnly = TRUE
  QuietGen = TRUE
  Kills = TRUE
  ReportMode = "keep"
  KillBefore = FALSE
  MaxRuns = 2
CHECK_DEADLOCK FALSE
PROPERTIES RunEnds KeepCached
INVARIANT ReportsInOrder
