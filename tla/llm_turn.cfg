CONSTANTS
  Providers = {"anthropic", "openai", "gemini", "whole"}
  Tools = {1}
  Cap = 1
  MaxRetries = 1
  Index = {0, 1}
  MaxWire = 7
  MayCancel = TRUE
  MayLeave = TRUE
SPECIFICATION FairSpec
CHECK_DEADLOCK FALSE
INVARIANTS StreamedIsReturned BodyClosedLast
PROPERTIES UninterruptedTurnEnds
