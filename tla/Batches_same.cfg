SPECIFICATION FairSpec
CONSTANTS
  N = 5
  M = 4
  SameListing = TRUE
INVARIANTS TypeOK DisjointBatches GatherComplete GatherLeftovers LastFilesLeftOut
PROPERTY PipelineEnds
CHECK_DEADLOCK FALSE
