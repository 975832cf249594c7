SPECIFICATION Spec
CONSTANTS
  t1 = t1
  t2 = t2
  f1 = f1
  Tests = {t1, t2}
  Files = {f1}
  FileOf <- OneFile
  todo <- TwoTests
  Versions = {1}
  Compiled = TRUE
  Filter = TRUE
  FreshOnly = TRUE
  QuietGen = TRUE
  Kills = TRUE
  ReportMode = "overwrite"
  KillBefore = TRUE
  MaxRuns = 2
CHECK_DEADLOCK FALSE
INVARIANT ReportOwn
