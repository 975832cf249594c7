SPECIFICATION Spec
CONSTANTS
  N = 4
  M = 2
  SameListing = TRUE
INVARIANT BatchesCoverFiles
CHECK_DEADLOCK FALSE
