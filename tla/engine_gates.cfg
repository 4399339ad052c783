CONSTANTS
  Unset = Unset
  CtxKey <- Keys
  NodeOrder <- GatedNodes
  Edges <- GatedEdges
  Attr <- GatedAttr
  GraphAttr <- GatedGraphAttr
  Outcome <- GatedOutcome
  SaveFaults = TRUE
  LoadFaults = FALSE
  MaxRuns = 2
SPECIFICATION Spec
CHECK_DEADLOCK FALSE
INVARIANTS TypeOK RetryBudget GatesHold
PROPERTIES GatePassedSatisfied DurableProgress
