CONSTANTS
  Adapters = {"openai"}
  Silent = {2}
  MaxRounds = 4
  LoopWindow = 6
  Signature <- One
  MaxCalls = 2
  MaxInputs = 1
SPECIFICATION Spec
CHECK_DEADLOCK FALSE
INVARIANT ResultsReachModel
