SPECIFICATION FairSpec
CONSTANTS
  Events = 3
  MayFail = TRUE
  Depth = 2
  Pipelines <- Mixed
  Endless <- WhereTake
  Capacity = 1
  Limit = 1
  Budget = 2
  MayCancel = TRUE
  MayDrop = TRUE
INVARIANT NothingLost
INVARIANT CountOfEverything
 
PROPERTY PipelineEnds
PROPERTY CancelStops
CHECK_DEADLOCK FALSE
