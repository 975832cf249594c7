SPECIFICATION Spec
CONSTANTS
  Codes <- RMAP2PFiles
  Mislabelled = {}
INVARIANT ErrorIsThere
CHECK_DEADLOCK FALSE
