CONSTANTS
  Unset = Unset
  CtxKey <- Keys
  NodeOrder <- StraightNodes
  Edges <- StraightEdges
  Attr <- StraightAttr
  GraphAttr <- StraightGraphAttr
  Outcome <- StraightOutcome
  SaveFaults = FALSE
  LoadFaults = FALSE
  MaxRuns = 2
SPECIFICATION FairSpec
CHECK_DEADLOCK FALSE
INVARIANT CheckpointIsMemory
PROPERTIES KeepsPromise Terminates
