CONSTANTS
  a = a
  b = b
  BufSize = 1
  MaxEvents = 7
  Runs <- SmallRuns
  AgentEvents = {"tool_end"}
  AgentBuf = 1
  MaxTurns = 2
  MaxFaults = 1
SYMMETRY Alike
SPECIFICATION Spec
CHECK_DEADLOCK FALSE
INVARIANTS TurnsInOrder CheckpointCoversStages RecordedBeforeClose
