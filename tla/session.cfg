CONSTANTS
  Adapters = {"anthropic", "gemini"}
  Silent = {2}
  MaxRounds = 4
  LoopWindow = 6
  Signature <- One
  MaxCalls = 2
  MaxInputs = 1
SPECIFICATION FairSpec
CHECK_DEADLOCK FALSE
INVARIANTS ToolCallsAnswered InputsKept HistoryReachesModel
PROPERTIES NaturalExit SessionEnds
