SPECIFICATION RunSpec
CONSTANTS
  Tests = {t1}
  Files = {f1}
  FileOf <- OneFile
  Versions = {1, 2}
  Compiled = TRUE
  Filter = TRUE
  FreshOnly = FALSE
  QuietGen = TRUE
  Kills = FALSE
INVARIANT CacheSound
