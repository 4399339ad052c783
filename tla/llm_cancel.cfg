CONSTANTS
  Providers = {"anthropic", "openai", "gemini"}
  Tools = {}
  Cap = 1
  MaxRetries = 1
  Index = {0}
  MaxWire = 3
  MayCancel = TRUE
  MayLeave = FALSE
SPECIFICATION FairSpec
CHECK_DEADLOCK FALSE
PROPERTIES TurnEnds
